---- MODULE Spec2Model ----
(***************************************************************************)
(* Model of jeux_de_dictionnaires.py: the suffix comparator, the three     *)
(* longest-common-suffix searches (brute force, bucketed, trie) and the    *)
(* trie builder.                                                           *)
(*                                                                         *)
(* A word is a sequence of one-character strings.  Python's None pair is   *)
(* the empty tuple <<>>, a pair of words is <<w1, w2>>.  A dict is kept in *)
(* insertion order, as Python iterates it: the bucket map is a sequence of *)
(* [char, values] entries, and the trie maps every node (named by the path *)
(* of keys from the root) to the sequence of its keys, 'END' included.     *)
(***************************************************************************)
EXTENDS Naturals, Integers, Sequences, FiniteSets, TLC

MaxLen == 3
MaxWords == 3

Chars == {"a", "b"}
END == "END"

Word == UNION {[1..n -> Chars] : n \in 0..MaxLen}
WordLists == UNION {[1..n -> Word] : n \in 0..MaxWords}

VARIABLES words, pc, cs, res1, res2, trie, inserted, res3

vars == <<words, pc, cs, res1, res2, trie, inserted, res3>>

----------------------------------------------------------------------------
(* common_suffix *)

InBoundsStrict(p, first_word, second_word) ==
    (p < Len(first_word)) /\ (p < Len(second_word))

\* the while condition; p is the code's -p (1 = last character)
InBounds(p, first_word, second_word) ==
    (p <= Len(first_word)) /\ (p <= Len(second_word))

\* first_word[p] for a negative Python index -p
CharFromEnd(word, p) == word[Len(word) + 1 - p]

RECURSIVE cs_loop(_, _, _, _)
cs_loop(first_word, second_word, p, suffix) ==
    IF InBounds(p, first_word, second_word)
    THEN IF CharFromEnd(first_word, p) = CharFromEnd(second_word, p)
         THEN cs_loop(first_word, second_word, p + 1,
                      <<CharFromEnd(first_word, p)>> \o suffix)
         ELSE suffix
    ELSE suffix

common_suffix(first_word, second_word) ==
    IF Len(first_word) = 0 \/ Len(second_word) = 0 THEN <<>>
    ELSE IF first_word = second_word THEN first_word
    ELSE cs_loop(first_word, second_word, 1, <<>>)

----------------------------------------------------------------------------
(* largest_common_suffix *)

InnerStartSkip(i) == i + 2

\* range(i+1, len(words)): first j of the inner loop
InnerStart(i) == i + 1

BetterOrEqual(suffix, largest_suffix) == Len(suffix) >= Len(largest_suffix)

\* len(suffix) > len(largest_suffix)
Better(suffix, largest_suffix) == Len(suffix) > Len(largest_suffix)

RECURSIVE lcs_loop(_, _, _, _, _)
lcs_loop(ws, i, j, largest_suffix, best_pair) ==
    IF i > Len(ws)
    THEN [status |-> "ok", suffix |-> largest_suffix, pair |-> best_pair]
    ELSE IF j > Len(ws)
    THEN lcs_loop(ws, i + 1, InnerStart(i + 1), largest_suffix, best_pair)
    ELSE IF ws[i] = ws[j]
    THEN lcs_loop(ws, i, j + 1, largest_suffix, best_pair)
    ELSE LET suffix == common_suffix(ws[i], ws[j]) IN
         IF Better(suffix, largest_suffix)
         THEN lcs_loop(ws, i, j + 1, suffix, <<ws[i], ws[j]>>)
         ELSE lcs_loop(ws, i, j + 1, largest_suffix, best_pair)

largest_common_suffix(ws) == lcs_loop(ws, 1, InnerStart(1), <<>>, <<>>)

----------------------------------------------------------------------------
(* last_char_map, largest_common_suffix2 *)

FirstChar(word) == word[1]

\* word[-1] of a non-empty word
LastChar(word) == word[Len(word)]

RECURSIVE lcm_loop(_, _, _)
lcm_loop(ws, k, word_map) ==
    IF k > Len(ws) THEN [status |-> "ok", word_map |-> word_map]
    ELSE IF Len(ws[k]) = 0
    THEN [status |-> "IndexError", word_map |-> <<>>]
    ELSE LET char == LastChar(ws[k]) IN
         IF \A m \in DOMAIN word_map : word_map[m].char # char
         THEN lcm_loop(ws, k + 1,
                  Append(word_map, [char |-> char, values |-> <<ws[k]>>]))
         ELSE lcm_loop(ws, k + 1,
                  [m \in DOMAIN word_map |->
                      IF word_map[m].char = char
                      THEN [char |-> char,
                            values |-> Append(word_map[m].values, ws[k])]
                      ELSE word_map[m]])

last_char_map(ws) == lcm_loop(ws, 1, <<>>)

RECURSIVE lcs2_loop(_, _, _, _)
lcs2_loop(word_map, m, largest_suffix, best_pair) ==
    IF m > Len(word_map)
    THEN [status |-> "ok", suffix |-> largest_suffix, pair |-> best_pair]
    ELSE LET r == largest_common_suffix(word_map[m].values) IN
         IF Len(r.suffix) > Len(largest_suffix)
         THEN lcs2_loop(word_map, m + 1, r.suffix, r.pair)
         ELSE lcs2_loop(word_map, m + 1, largest_suffix, best_pair)

largest_common_suffix2(ws) ==
    LET wm == last_char_map(ws) IN
    IF wm.status # "ok"
    THEN [status |-> wm.status, suffix |-> <<>>, pair |-> <<>>]
    ELSE lcs2_loop(wm.word_map, 1, <<>>, <<>>)

----------------------------------------------------------------------------
(* build_trie *)

\* trie = {}
EmptyTrie == (<<>> :> <<>>)

\* character in node
HasKey(keys, key) == \E m \in DOMAIN keys : keys[m] = key

NotReversed(word) == word

\* word[::-1]
Reversed(word) == [k \in 1..Len(word) |-> word[Len(word) + 1 - k]]

RECURSIVE insert_chars(_, _, _, _)
insert_chars(t, rword, k, node) ==
    IF k > Len(rword)
    THEN IF HasKey(t[node], END) THEN t
         ELSE [t EXCEPT ![node] = Append(@, END)]
    ELSE LET character == rword[k]
             child == Append(node, character)
         IN  IF ~HasKey(t[node], character)
             THEN insert_chars(
                      [t EXCEPT ![node] = Append(@, character)] @@ (child :> <<>>),
                      rword, k + 1, child)
             ELSE insert_chars(t, rword, k + 1, child)

\* one iteration of "for word in words"
insert_word(t, word) == insert_chars(t, Reversed(word), 1, <<>>)

----------------------------------------------------------------------------
(* largest_common_suffix3.walk *)

AdoptAny(r, best) == Len(r) + 1 > Len(best)

\* len(r) > 0 and len(r) + 1 > len(best)
Adopt(r, best) == Len(r) > 0 /\ Len(r) + 1 > Len(best)

IsBranchLoose(keys) == Len(keys) >= 1

\* len(trie) >= 2
IsBranch(keys) == Len(keys) >= 2

RECURSIVE walk(_, _)
RECURSIVE walk_loop(_, _, _, _)
walk_loop(t, node, m, best) ==
    IF m > Len(t[node]) THEN best
    ELSE LET key == t[node][m] IN
         IF key = END THEN walk_loop(t, node, m + 1, best)
         ELSE LET r == walk(t, Append(node, key)) IN
              IF Adopt(r, best)
              THEN walk_loop(t, node, m + 1, <<key>> \o r)
              ELSE walk_loop(t, node, m + 1, best)

walk(t, node) ==
    LET best == walk_loop(t, node, 1, <<>>) IN
    IF Len(best) > 0 THEN best
    ELSE IF IsBranch(t[node]) THEN <<END>>
    ELSE <<>>

----------------------------------------------------------------------------
(* The calls *)

Unset == [status |-> "unset", suffix |-> <<>>, pair |-> <<>>]

Init ==
    /\ words \in WordLists
    /\ pc = "start"
    /\ cs = [status |-> "unset", first |-> <<>>, second |-> <<>>, suffix |-> <<>>]
    /\ res1 = Unset
    /\ res2 = Unset
    /\ trie = EmptyTrie
    /\ inserted = 0
    /\ res3 = [status |-> "unset", path |-> <<>>]

Call_common_suffix ==
    /\ pc = "start"
    /\ \E i \in DOMAIN words, j \in DOMAIN words :
          cs' = [status |-> "ok", first |-> words[i], second |-> words[j],
                 suffix |-> common_suffix(words[i], words[j])]
    /\ pc' = "cs_done"
    /\ UNCHANGED <<words, res1, res2, trie, inserted, res3>>

Call_largest_common_suffix ==
    /\ pc = "start"
    /\ res1' = largest_common_suffix(words)
    /\ pc' = "lcs2"
    /\ UNCHANGED <<words, cs, res2, trie, inserted, res3>>

Call_largest_common_suffix2 ==
    /\ pc = "lcs2"
    /\ res2' = largest_common_suffix2(words)
    /\ pc' = "lcs3"
    /\ UNCHANGED <<words, cs, res1, trie, inserted, res3>>

build_trie_step ==
    /\ pc = "lcs3"
    /\ inserted < Len(words)
    /\ trie' = insert_word(trie, words[inserted + 1])
    /\ inserted' = inserted + 1
    /\ UNCHANGED <<words, pc, cs, res1, res2, res3>>

Call_walk ==
    /\ pc = "lcs3"
    /\ inserted = Len(words)
    /\ res3' = [status |-> "ok", path |-> walk(trie, <<>>)]
    /\ pc' = "done"
    /\ UNCHANGED <<words, cs, res1, res2, trie, inserted>>

Next ==
    \/ Call_common_suffix
    \/ Call_largest_common_suffix
    \/ Call_largest_common_suffix2
    \/ build_trie_step
    \/ Call_walk

Spec == Init /\ [][Next]_vars

----------------------------------------------------------------------------
(* Vocabulary of the properties, independent of the operators above *)

Values(ws) == {ws[k] : k \in DOMAIN ws}

TwoDistinct(ws) == Cardinality(Values(ws)) >= 2

\* positions i<j holding different words, in no particular order
DistinctPairs(ws) ==
    {ij \in (DOMAIN ws) \X (DOMAIN ws) : ij[1] < ij[2] /\ ws[ij[1]] # ws[ij[2]]}

IsSuffixOf(s, w) ==
    /\ Len(s) <= Len(w)
    /\ \A k \in 1..Len(s) : s[k] = w[Len(w) - Len(s) + k]

MinLen(a, b) == IF Len(a) <= Len(b) THEN Len(a) ELSE Len(b)

\* the last k characters of a and of b are the same
SameTail(a, b, k) ==
    \A m \in 1..k : a[Len(a) + 1 - m] = b[Len(b) + 1 - m]

\* length of the longest string that is a suffix of both a and b
TailLen(a, b) ==
    CHOOSE k \in 0..MinLen(a, b) :
        /\ SameTail(a, b, k)
        /\ \A k2 \in (k + 1)..MinLen(a, b) : ~SameTail(a, b, k2)

MaxOver(S) == IF S = {} THEN 0 ELSE CHOOSE x \in S : \A y \in S : y <= x

\* p spells w backwards
IsReverseOf(p, w) ==
    /\ Len(p) = Len(w)
    /\ \A k \in 1..Len(p) : p[k] = w[Len(w) + 1 - k]

LexLess(ij, kl) == ij[1] < kl[1] \/ (ij[1] = kl[1] /\ ij[2] < kl[2])

Front(s) == SubSeq(s, 1, Len(s) - 1)

TerminalPaths(t) == {p \in DOMAIN t : HasKey(t[p], END)}

HasCharChild(keys) == \E m \in DOMAIN keys : keys[m] # END

IsPrefixOf(p, q) == Len(p) <= Len(q) /\ \A k \in 1..Len(p) : p[k] = q[k]

----------------------------------------------------------------------------
(* Claims *)

\* C1: for every non-empty word list on which the three searches returned,
\* the length of the brute-force suffix, the length of the bucketed suffix
\* and the length of the sequence returned by the trie search are equal.
C1_Agreement ==
    (words # <<>> /\ res1.status = "ok" /\ res2.status = "ok"
        /\ res3.status = "ok")
    => /\ Len(res1.suffix) = Len(res2.suffix)
       /\ Len(res2.suffix) = Len(res3.path)

\* C2: the suffix returned by largest_common_suffix has the maximum length
\* of common_suffix(W[i], W[j]) over positions i<j with W[i] # W[j] (0 when
\* there is none), and a returned pair is two distinct words of W whose
\* common_suffix is exactly the returned suffix.
C2_BruteForceMax ==
    res1.status = "ok"
    => /\ Len(res1.suffix) =
            MaxOver({Len(common_suffix(words[ij[1]], words[ij[2]])) :
                        ij \in DistinctPairs(words)})
       /\ res1.pair # <<>>
            => /\ res1.pair[1] \in Values(words)
               /\ res1.pair[2] \in Values(words)
               /\ res1.pair[1] # res1.pair[2]
               /\ common_suffix(res1.pair[1], res1.pair[2]) = res1.suffix

C2_Witness ==
    /\ res1.status = "ok"
    /\ res1.pair # <<>>
    /\ Len(res1.suffix) = 2
    /\ Cardinality(DistinctPairs(words)) >= 2

\* C3: largest_common_suffix returns the absent pair exactly when W holds
\* fewer than two distinct words; with two distinct words it returns a pair
\* of two distinct words of W, also when they share no trailing character.
C3_PairIffTwoDistinct ==
    res1.status = "ok"
    => /\ (res1.pair = <<>>) <=> ~TwoDistinct(words)
       /\ TwoDistinct(words)
            => /\ Len(res1.pair) = 2
               /\ res1.pair[1] \in Values(words)
               /\ res1.pair[2] \in Values(words)
               /\ res1.pair[1] # res1.pair[2]

\* C4: every search is total: whatever the list, the empty list and lists
\* holding the empty word included, a search that was called has returned a
\* result and is not in an error state.
C4_Total ==
    /\ pc \in {"lcs2", "lcs3", "done"} => res1.status = "ok"
    /\ pc \in {"lcs3", "done"} => res2.status = "ok"
    /\ pc = "done" => res3.status = "ok"

\* C5: common_suffix(a, b) is the longest string that is a suffix of both a
\* and b: empty when an input is empty or the last characters differ, a
\* itself when a = b, and the shorter word when one word is a suffix of the
\* other.
C5_CommonSuffix ==
    cs.status = "ok"
    => LET a == cs.first
           b == cs.second
           s == cs.suffix
       IN  /\ IsSuffixOf(s, a)
           /\ IsSuffixOf(s, b)
           /\ Len(s) = TailLen(a, b)
           /\ (Len(a) = 0 \/ Len(b) = 0) => s = <<>>
           /\ (Len(a) > 0 /\ Len(b) > 0 /\ a[Len(a)] # b[Len(b)]) => s = <<>>
           /\ a = b => s = a
           /\ (Len(a) < Len(b) /\ IsSuffixOf(a, b)) => s = a
           /\ (Len(b) < Len(a) /\ IsSuffixOf(b, a)) => s = b

C5_Witness ==
    /\ cs.status = "ok"
    /\ Len(cs.first) = 2
    /\ Len(cs.second) = 3
    /\ cs.suffix = cs.first

\* C6: after each whole-word insertion of build_trie, the paths that end at
\* a terminal node are exactly the reversed inserted words (the empty word
\* marks the root), every node without a character child is terminal, and
\* every path from the root is a prefix of the reverse of an inserted word.
C6_TrieInvariant ==
    inserted >= 1
    => /\ \A p \in TerminalPaths(trie) :
            \E k \in 1..inserted : IsReverseOf(p, words[k])
       /\ \A k \in 1..inserted :
            \E p \in TerminalPaths(trie) : IsReverseOf(p, words[k])
       /\ \A p \in DOMAIN trie :
            ~HasCharChild(trie[p]) => HasKey(trie[p], END)
       /\ \A p \in DOMAIN trie :
            \E k \in 1..inserted, q \in DOMAIN trie :
                IsReverseOf(q, words[k]) /\ IsPrefixOf(p, q)

C6_Witness ==
    /\ inserted = 3
    /\ Cardinality(TerminalPaths(trie)) = 3
    /\ <<>> \in TerminalPaths(trie)
    /\ \E p \in TerminalPaths(trie) : HasCharChild(trie[p]) /\ Len(p) >= 1

C8_BucketedAgrees ==
    (res1.status = "ok" /\ res2.status # "unset"
        /\ \A k \in DOMAIN words : Len(words[k]) > 0)
    => /\ res2.status = "ok"
       /\ Len(res2.suffix) = Len(res1.suffix)
       /\ (res2.pair = <<>>) <=> (res1.pair = <<>>)

C8_Witness ==
    /\ res1.status = "ok"
    /\ res2.status = "ok"
    /\ Len(words) = 3
    /\ \A k \in DOMAIN words : Len(words[k]) > 0
    /\ \E k \in DOMAIN words : words[k][Len(words[k])] # words[1][Len(words[1])]
    /\ Len(res2.suffix) = 2
    /\ res2.pair # <<>>

\* C9: when pairs of distinct words reach a maximal common-suffix length of
\* at least 1, largest_common_suffix returns the first of them in scan
\* order: the pair (W[i], W[j]), i<j, with the lexicographically smallest
\* (i, j) among the pairs of that length.
C9_FirstFoundWins ==
    (res1.status = "ok" /\ Len(res1.suffix) >= 1)
    => \E ij \in DistinctPairs(words) :
          /\ Len(common_suffix(words[ij[1]], words[ij[2]])) = Len(res1.suffix)
          /\ \A kl \in DistinctPairs(words) :
                /\ Len(common_suffix(words[kl[1]], words[kl[2]])) <= Len(res1.suffix)
                /\ LexLess(kl, ij)
                     => Len(common_suffix(words[kl[1]], words[kl[2]])) < Len(res1.suffix)
          /\ res1.pair = <<words[ij[1]], words[ij[2]]>>
          /\ res1.suffix = common_suffix(words[ij[1]], words[ij[2]])

C9_Witness ==
    /\ res1.status = "ok"
    /\ Len(res1.suffix) >= 1
    /\ \E ij \in DistinctPairs(words) :
          /\ Len(common_suffix(words[ij[1]], words[ij[2]])) = Len(res1.suffix)
          /\ <<words[ij[1]], words[ij[2]]>> # res1.pair
          /\ <<words[ij[2]], words[ij[1]]>> # res1.pair

====
